---- MODULE Spec2Model ----
(***************************************************************************)
(* A model of the zero_copy package: ZeroCopySink (a growable byte buffer  *)
(* with little-endian writers and the varint writer) and ZeroCopySource (a *)
(* cursor over an immutable byte slice with readers that signal            *)
(* end-of-data).                                                           *)
(*                                                                         *)
(* Machine words.  uint64 and int (64-bit platform) values are kept at     *)
(* their full width as four 16-bit limbs, least significant first, so the  *)
(* varint boundaries, the wrap of unsigned subtraction, the overflow of    *)
(* unsigned addition and the uint64 -> int reinterpretation are computed   *)
(* exactly.  Slice lengths and capacities are small naturals.              *)
(***************************************************************************)
EXTENDS Integers, Sequences, FiniteSets, TLC

VARIABLES
    sink,    \* the ZeroCopySink: backing array, len, cap, panic status
    sop,     \* record of the last sink operation (arguments, results, pre-state)
    src,     \* the ZeroCopySource: data s, cursor off, panic status
    rop,     \* record of the last source operation
    steps,   \* number of operations performed so far
    log      \* round trip: the varints written, their sizes, the reads made

vars == <<sink, sop, src, rop, steps, log>>

----------------------------------------------------------------------------
(* Bounds of the model *)

\* operations performed on one sink
MaxSinkOps == 3
\* operations performed on one source
MaxSrcOps == 3
\* largest slice makeSlice can allocate (the memory of the modelled machine)
MaxAlloc == 64
\* longest data slice handed to NewZeroCopySource
MaxData == 10
\* varints written before the bytes are read back
MaxVarints == 2

----------------------------------------------------------------------------
(* 64-bit words as four 16-bit limbs *)

LimbBase == 256 * 256
HalfLimb == 128 * 256
TopLimb == LimbBase - 1

\* the word of a small natural (n < 2^31)
W(n) == <<n % LimbBase, n \div LimbBase, 0, 0>>

\* a word that is a small natural, and its value
IsSmall(x) == x[2] < HalfLimb /\ x[3] = 0 /\ x[4] = 0
Nat64(x) == x[1] + LimbBase * x[2]

\* a + b + cin on 64 bits: the wrapped sum and the carry out
AddC(a, b, cin) ==
    LET t1 == a[1] + b[1] + cin
        t2 == a[2] + b[2] + (t1 \div LimbBase)
        t3 == a[3] + b[3] + (t2 \div LimbBase)
        t4 == a[4] + b[4] + (t3 \div LimbBase)
    IN  [sum |-> <<t1 % LimbBase, t2 % LimbBase, t3 % LimbBase, t4 % LimbBase>>,
         carry |-> t4 \div LimbBase]

Compl(b) == <<TopLimb - b[1], TopLimb - b[2], TopLimb - b[3], TopLimb - b[4]>>

\* Go's wrapping + and - on uint64 / int
AddWrap(a, b) == AddC(a, b, 0).sum
SubWrap(a, b) == AddC(a, Compl(b), 1).sum

\* unsigned comparison
LtU(a, b) ==
    \/ a[4] < b[4]
    \/ a[4] = b[4] /\ a[3] < b[3]
    \/ a[4] = b[4] /\ a[3] = b[3] /\ a[2] < b[2]
    \/ a[4] = b[4] /\ a[3] = b[3] /\ a[2] = b[2] /\ a[1] < b[1]
LeU(a, b) == ~LtU(b, a)

\* signed (two's complement) comparison of int values
IsNeg(x) == x[4] >= HalfLimb
LtS(a, b) ==
    IF IsNeg(a) # IsNeg(b) THEN IsNeg(a) ELSE LtU(a, b)
LeS(a, b) == ~LtS(b, a)

MaxUint64 == <<TopLimb, TopLimb, TopLimb, TopLimb>>
maxInt == <<TopLimb, TopLimb, TopLimb, HalfLimb - 1>>

----------------------------------------------------------------------------
(* Program constants *)

\* make([]byte, 0, 512) in NewZeroCopySink
DefaultReserve == 512
Uint16Size == 2
Uint32Size == 4
Uint64Size == 8
Uint256Size == 32
AddrLen == 20
\* the width WriteVarUint reserves
VarUintReserve == 9

----------------------------------------------------------------------------
(* Little-endian encoding: encoding/binary's LittleEndian *)

\* the two bytes of a 16-bit limb, low byte first
LimbBytes(w) == <<w % 256, w \div 256>>
PutUint16(x) == LimbBytes(x[1])
PutUint32(x) == LimbBytes(x[1]) \o LimbBytes(x[2])
PutUint64(x) == LimbBytes(x[1]) \o LimbBytes(x[2]) \o LimbBytes(x[3]) \o LimbBytes(x[4])

\* the readers: b is a byte sequence of at least the width
GetUint16(b) == <<b[1] + 256 * b[2], 0, 0, 0>>
GetUint32(b) == <<b[1] + 256 * b[2], b[3] + 256 * b[4], 0, 0>>
GetUint64(b) ==
    <<b[1] + 256 * b[2], b[3] + 256 * b[4], b[5] + 256 * b[6], b[7] + 256 * b[8]>>

----------------------------------------------------------------------------
(* ZeroCopySink.  z.arr is the backing array (Len(z.arr) = cap(z.buf)),     *)
(* z.len = len(z.buf), z.gen counts the arrays makeSlice has allocated for *)
(* the sink, z.panic is "none" or the panic that ended the last call.      *)

Zeros(n) == [k \in 1..n |-> 0]

Panicked(z, what) == [z EXCEPT !.panic = what]

\* z.buf = z.buf[:h] for an int h: a negative h or one past the capacity
\* is a run-time panic
Reslice(z, h) ==
    IF IsNeg(h) \/ ~IsSmall(h)
    THEN Panicked(z, "SliceBounds")
    ELSE IF Nat64(h) > Len(z.arr)
    THEN Panicked(z, "SliceBounds")
    ELSE [z EXCEPT !.len = Nat64(h)]

\* tryGrowByReSlice with the strict comparison n < cap(z.buf)-l
tryGrowByReSlice_Strict(z, n) ==
    IF LtS(n, W(Len(z.arr) - z.len))
    THEN [z |-> Reslice(z, AddWrap(W(z.len), n)), i |-> z.len, ok |-> TRUE]
    ELSE [z |-> z, i |-> 0, ok |-> FALSE]

\* tryGrowByReSlice(n int): n <= cap(z.buf)-l is a signed comparison; on
\* success the index to write at is the old length
tryGrowByReSlice(z, n) ==
    IF LeS(n, W(Len(z.arr) - z.len))
    THEN [z |-> Reslice(z, AddWrap(W(z.len), n)), i |-> z.len, ok |-> TRUE]
    ELSE [z |-> z, i |-> 0, ok |-> FALSE]

\* makeSlice(n): a fresh zeroed array, or the too-large panic when the
\* allocation fails
makeSlice(n) ==
    IF IsSmall(n) /\ Nat64(n) <= MaxAlloc
    THEN [ok |-> TRUE, arr |-> Zeros(Nat64(n))]
    ELSE [ok |-> FALSE, arr |-> <<>>]

\* Reallocate with a copy that stops one byte short
Reallocate_ShortCopy(z, n, a) ==
    IF ~a.ok
    THEN [z |-> Panicked(z, "bytes.ErrTooLarge"), i |-> 0]
    ELSE [z |-> [arr |-> [k \in 1..Len(a.arr) |->
                             IF k < z.len THEN z.arr[k] ELSE a.arr[k]],
                 len |-> z.len + Nat64(n),
                 gen |-> z.gen + 1,
                 panic |-> "none"],
          i |-> z.len]

\* grow, after the guard: buf := makeSlice(2*c + n); copy(buf, z.buf);
\* z.buf = buf[:l+n]
Reallocate(z, n, a) ==
    IF ~a.ok
    THEN [z |-> Panicked(z, "bytes.ErrTooLarge"), i |-> 0]
    ELSE [z |-> [arr |-> [k \in 1..Len(a.arr) |->
                             IF k <= z.len THEN z.arr[k] ELSE a.arr[k]],
                 len |-> z.len + Nat64(n),
                 gen |-> z.gen + 1,
                 panic |-> "none"],
          i |-> z.len]

\* grow, after tryGrowByReSlice returned t: the guard c > maxInt-c-n
GrowSlow(z, n, t) ==
    IF t.z.panic # "none" \/ t.ok
    THEN [z |-> t.z, i |-> t.i]
    ELSE IF LtS(SubWrap(SubWrap(maxInt, W(Len(z.arr))), n), W(Len(z.arr)))
    THEN [z |-> Panicked(z, "ErrTooLarge"), i |-> 0]
    ELSE Reallocate(z, n, makeSlice(AddWrap(W(2 * Len(z.arr)), n)))

\* grow(n int)
grow(z, n) == GrowSlow(z, n, tryGrowByReSlice(z, n))

\* NextBytes, after tryGrowByReSlice returned t: if !ok { m = z.grow(int(n)) }
GrowIfNeeded(z, n, t) ==
    IF t.z.panic = "none" /\ ~t.ok THEN grow(z, n) ELSE [z |-> t.z, i |-> t.i]

\* NextBytes, the window data = z.buf[m:]: bytes g.i+1 .. len of the array;
\* m > len(z.buf) is a run-time panic
Window(g) ==
    IF g.z.panic # "none"
    THEN [z |-> g.z, m |-> 0, wlen |-> 0]
    ELSE IF g.i > g.z.len
    THEN [z |-> Panicked(g.z, "SliceBounds"), m |-> 0, wlen |-> 0]
    ELSE [z |-> g.z, m |-> g.i, wlen |-> g.z.len - g.i]

\* NextBytes(n uint64); int(n) keeps the 64 bits
SinkNextBytes(z, n) == Window(GrowIfNeeded(z, n, tryGrowByReSlice(z, n)))

\* BackUp that also zeroes the bytes it retracts
SinkBackUp_Clears(z, n) ==
    Reslice([z EXCEPT !.arr = [k \in 1..Len(z.arr) |->
                                  IF k > z.len - n[1] /\ k <= z.len THEN 0 ELSE z.arr[k]]],
            SubWrap(W(z.len), n))

\* BackUp(n uint64): l := len(z.buf) - int(n); z.buf = z.buf[:l]
SinkBackUp(z, n) == Reslice(z, SubWrap(W(z.len), n))

\* copy(data, p) / buf[i] = ... into the window that starts at offset m
Store(z, m, p) ==
    [z EXCEPT !.arr = [k \in 1..Len(z.arr) |->
                          IF m < k /\ k <= m + Len(p) THEN p[k - m] ELSE z.arr[k]]]

\* the store of p into the window r that NextBytes returned
StoreAt(r, p) ==
    IF r.z.panic # "none"
    THEN [z |-> r.z, m |-> 0, size |-> 0]
    ELSE [z |-> Store(r.z, r.m, p), m |-> r.m, size |-> 0]

\* WriteBytes(p): data := z.NextBytes(len(p)); copy(data, p)
WriteBytes(z, p) == StoreAt(SinkNextBytes(z, W(Len(p))), p)

\* the fixed-width writers: NextBytes(width), then the little-endian store
WriteUint8(z, b) == StoreAt(SinkNextBytes(z, W(1)), <<b>>)
WriteBool(z, b) == IF b THEN WriteUint8(z, 1) ELSE WriteUint8(z, 0)
WriteUint16(z, x) == StoreAt(SinkNextBytes(z, W(2)), PutUint16(x))
WriteUint32(z, x) == StoreAt(SinkNextBytes(z, W(4)), PutUint32(x))
WriteUint64(z, x) == StoreAt(SinkNextBytes(z, W(8)), PutUint64(x))

\* VarUintForm with the first bound off by one: data <= 0xFD
VarUintForm_OffByOne(data) ==
    IF LeU(data, W(253))
    THEN [bytes |-> <<data[1] % 256>>, size |-> 1]
    ELSE IF LeU(data, <<TopLimb, 0, 0, 0>>)
    THEN [bytes |-> <<253>> \o PutUint16(data), size |-> 3]
    ELSE IF LeU(data, <<TopLimb, TopLimb, 0, 0>>)
    THEN [bytes |-> <<254>> \o PutUint32(data), size |-> 5]
    ELSE [bytes |-> <<255>> \o PutUint64(data), size |-> 9]

\* the form WriteVarUint chooses for data: the bytes stored into the window
\* and the size
VarUintForm(data) ==
    IF LtU(data, W(253))
    THEN [bytes |-> <<data[1] % 256>>, size |-> 1]
    ELSE IF LeU(data, <<TopLimb, 0, 0, 0>>)
    THEN [bytes |-> <<253>> \o PutUint16(data), size |-> 3]
    ELSE IF LeU(data, <<TopLimb, TopLimb, 0, 0>>)
    THEN [bytes |-> <<254>> \o PutUint32(data), size |-> 5]
    ELSE [bytes |-> <<255>> \o PutUint64(data), size |-> 9]

\* WriteVarUint, after buf := z.NextBytes(9) returned r: store the form f,
\* then z.BackUp(9 - size)
StoreVarUint(r, f) ==
    IF r.z.panic # "none"
    THEN [z |-> r.z, m |-> 0, size |-> 0]
    ELSE [z |-> SinkBackUp(Store(r.z, r.m, f.bytes), W(VarUintReserve - f.size)),
          m |-> r.m,
          size |-> f.size]

\* WriteVarUint(data)
WriteVarUint(z, data) ==
    StoreVarUint(SinkNextBytes(z, W(VarUintReserve)), VarUintForm(data))

\* WriteVarBytes, after WriteVarUint(l) returned v: size = that size + l,
\* then z.WriteBytes(data)
AppendBytes(v, p) ==
    IF v.z.panic # "none"
    THEN [z |-> v.z, m |-> 0, size |-> 0]
    ELSE [z |-> WriteBytes(v.z, p).z, m |-> v.m, size |-> v.size + Len(p)]

\* WriteVarBytes(data)
WriteVarBytes(z, p) == AppendBytes(WriteVarUint(z, W(Len(p))), p)

\* Reset: z.buf = z.buf[:0]
SinkReset(z) == [z EXCEPT !.len = 0]

\* NewZeroCopySink(b): b is nil (b.nil) or a caller's slice with backing
\* array b.arr and length b.len, which the sink takes over as it is
NewZeroCopySink(b) ==
    IF b.nil
    THEN [arr |-> Zeros(DefaultReserve), len |-> 0, gen |-> 0, panic |-> "none"]
    ELSE [arr |-> b.arr, len |-> b.len, gen |-> 0, panic |-> "none"]

\* Bytes(): the logical content z.buf
SinkBytes(z) == SubSeq(z.arr, 1, z.len)

---------------------------------------------------------------------------------------------------------------------------------------------------
(* ZeroCopySource.  z.s is the data, z.off the cursor (a uint64 word),      *)
(* z.panic is "none" or the run-time panic that ended the last call.  A    *)
(* reader returns the source after the call, eof, the value read (val, a   *)
(* word), the bytes read (data), and tr: for each NextByte / NextBytes     *)
(* call it made, in order, that call's eof and the cursor it left.         *)

\* SafeAdd(a, b): the sum of two uint64 and whether it overflowed
SafeAdd(a, b) ==
    LET r == AddC(a, b, 0)
    IN  [sum |-> r.sum, overflow |-> r.carry = 1]

NewZeroCopySource(b) == [s |-> b, off |-> W(0), panic |-> "none"]

Res(z, eof, val, data, tr) ==
    [z |-> z, eof |-> eof, val |-> val, data |-> data, tr |-> tr]

\* Clamp that ignores the overflow flag: if end > m
Clamp_NoOverflow(z, a) ==
    IF LtU(W(Len(z.s)), a.sum)
    THEN [end |-> W(Len(z.s)), eof |-> TRUE]
    ELSE [end |-> a.sum, eof |-> FALSE]

\* Clamp that clamps the end and leaves eof unset
Clamp_NoEof(z, a) ==
    IF a.overflow \/ LtU(W(Len(z.s)), a.sum)
    THEN [end |-> W(Len(z.s)), eof |-> FALSE]
    ELSE [end |-> a.sum, eof |-> FALSE]

\* end, overflow := SafeAdd(z.off, n); if overflow || end > m { end = m; eof = true }
Clamp(z, a) ==
    IF a.overflow \/ LtU(W(Len(z.s)), a.sum)
    THEN [end |-> W(Len(z.s)), eof |-> TRUE]
    ELSE [end |-> a.sum, eof |-> FALSE]

\* data = z.s[z.off:end]; z.off = end.  The slice panics when z.off > end
SliceTo(z, c) ==
    IF LtU(c.end, z.off)
    THEN Res([z EXCEPT !.panic = "SliceBounds"], c.eof, W(0), <<>>, <<>>)
    ELSE Res([z EXCEPT !.off = c.end], c.eof, W(0),
             SubSeq(z.s, Nat64(z.off) + 1, Nat64(c.end)),
             <<[eof |-> c.eof, off |-> c.end]>>)

\* NextBytes(n)
SrcNextBytes(z, n) == SliceTo(z, Clamp(z, SafeAdd(z.off, n)))

\* z.off = end
SkipTo(z, c) == Res([z EXCEPT !.off = c.end], c.eof, W(0), <<>>, <<>>)

\* Skip(n)
SrcSkip(z, n) == SkipTo(z, Clamp(z, SafeAdd(z.off, n)))

\* NextByte()
NextByte(z) ==
    IF LeU(W(Len(z.s)), z.off)
    THEN Res(z, TRUE, W(0), <<>>, <<[eof |-> TRUE, off |-> z.off]>>)
    ELSE Res([z EXCEPT !.off = AddWrap(z.off, W(1))], FALSE,
             W(z.s[Nat64(z.off) + 1]), <<z.s[Nat64(z.off) + 1]>>,
             <<[eof |-> FALSE, off |-> AddWrap(z.off, W(1))]>>)

NextUint8(z) == NextByte(z)

\* NextBool, after val, eof := z.NextByte() returned r: a byte other than 0
\* and 1 sets eof
BoolOf(r) ==
    IF r.val = W(0) \/ r.val = W(1)
    THEN r
    ELSE [r EXCEPT !.eof = TRUE, !.val = W(0)]

NextBool(z) == BoolOf(NextByte(z))

\* BackUp that moves the cursor the wrong way: z.off += n
SrcBackUp_Adds(z, n) == [z EXCEPT !.off = AddWrap(z.off, n)]

\* BackUp(n): z.off -= n, wrapping
SrcBackUp(z, n) == [z EXCEPT !.off = SubWrap(z.off, n)]

\* a fixed-width reader, after buf, eof = z.NextBytes(width) returned r:
\* if eof { return }, else the decoded value
Fixed(r, val) ==
    IF r.z.panic # "none" \/ r.eof
    THEN [r EXCEPT !.data = <<>>]
    ELSE [r EXCEPT !.val = val]

DecodeUint16(r) == Fixed(r, GetUint16(r.data))
DecodeUint32(r) == Fixed(r, GetUint32(r.data))
DecodeUint64(r) == Fixed(r, GetUint64(r.data))

NextUint16(z) == DecodeUint16(SrcNextBytes(z, W(Uint16Size)))
NextUint32(z) == DecodeUint32(SrcNextBytes(z, W(Uint32Size)))
NextUint64(z) == DecodeUint64(SrcNextBytes(z, W(Uint64Size)))

\* NextAddress() and NextHash(): NextBytes(20 / 32), copied unless eof
NextAddress(z) == Fixed(SrcNextBytes(z, W(AddrLen)), W(0))
NextHash(z) == Fixed(SrcNextBytes(z, W(Uint256Size)), W(0))

\* NextVarUint, after a payload read returned p: if e { eof = e; return },
\* else data = uint64(val).  f is what NextByte returned
Widen(f, p) ==
    IF p.z.panic # "none" \/ p.eof
    THEN Res(p.z, p.eof, W(0), <<>>, f.tr \o p.tr)
    ELSE Res(p.z, FALSE, p.val, <<>>, f.tr \o p.tr)

\* Payload with the 0xFE case reading a uint16
Payload_ShortFE(f) ==
    IF f.eof
    THEN [f EXCEPT !.data = <<>>]
    ELSE IF f.val = W(253) THEN Widen(f, NextUint16(f.z))
    ELSE IF f.val = W(254) THEN Widen(f, NextUint16(f.z))
    ELSE IF f.val = W(255) THEN Widen(f, NextUint64(f.z))
    ELSE [f EXCEPT !.data = <<>>]

\* NextVarUint, after fb, eof = z.NextByte() returned f: the switch on fb
Payload(f) ==
    IF f.eof
    THEN [f EXCEPT !.data = <<>>]
    ELSE IF f.val = W(253) THEN Widen(f, NextUint16(f.z))
    ELSE IF f.val = W(254) THEN Widen(f, NextUint32(f.z))
    ELSE IF f.val = W(255) THEN Widen(f, NextUint64(f.z))
    ELSE [f EXCEPT !.data = <<>>]

\* NextVarUint()
NextVarUint(z) == Payload(NextByte(z))

\* NextVarBytes, after data, eof = z.NextBytes(count) returned d; c is what
\* NextVarUint returned
Counted(c, d) == Res(d.z, d.eof, W(0), d.data, c.tr \o d.tr)

\* BytesOf without the return on eof
BytesOf_NoReturn(c) ==
    IF c.z.panic # "none"
    THEN Res(c.z, c.eof, W(0), <<>>, c.tr)
    ELSE Counted(c, SrcNextBytes(c.z, c.val))

\* NextVarBytes, after count, eof := z.NextVarUint() returned c:
\* if eof { return }
BytesOf(c) ==
    IF c.z.panic # "none" \/ c.eof
    THEN Res(c.z, c.eof, W(0), <<>>, c.tr)
    ELSE Counted(c, SrcNextBytes(c.z, c.val))

\* NextVarBytes()
NextVarBytes(z) == BytesOf(NextVarUint(z))

\* NextString(): string(NextVarBytes())
NextString(z) == NextVarBytes(z)

-----
(* Inputs of the sink operations *)

Pow32 == <<0, 0, 1, 0>>
MinInt == <<0, 0, 0, HalfLimb>>

\* sizes asked of NextBytes: small ones, sizes on both sides of the guard
\* of grow, and sizes that are negative as an int
SinkSizes ==
    { W(0), W(1), W(3), SubWrap(maxInt, W(4)), maxInt, MinInt, MaxUint64 }

\* sizes given to BackUp
BackUpSizes == { W(0), W(1), W(3), MaxUint64 }

\* values the sink state machine writes as varints
SinkVarVals == { W(1), W(300), W(65536), MaxUint64 }

\* byte sequences written by WriteBytes and WriteVarBytes
ByteSeqs == { <<>>, <<1, 2, 3>> }

\* slices handed to NewZeroCopySink: nil, empty, free capacity with stale
\* bytes, partly filled, and full
NilSlice == [nil |-> TRUE, arr |-> <<>>, len |-> 0]
SinkBufs ==
    { NilSlice,
      [nil |-> FALSE, arr |-> <<>>, len |-> 0],
      [nil |-> FALSE, arr |-> <<9, 9>>, len |-> 0],
      [nil |-> FALSE, arr |-> <<7, 8, 9, 9>>, len |-> 2],
      [nil |-> FALSE, arr |-> <<7, 8>>, len |-> 2] }

---------------------------------------------------------------------------------------------------------------------------------------------------
(* The sink as a state machine.  sop records the last operation:           *)
(*   name, n     the operation and its argument (a word): the size asked   *)
(*               or backed up, the length of the bytes, the varint value   *)
(*   req         the size the operation asks of NextBytes when it makes    *)
(*               one such call and the size is small, else -1              *)
(*   len0, cap0, gen0   len, cap and allocation count before it            *)
(*   m           the offset NextBytes returned                             *)
(*   size        the length of the window NextBytes returned, or the size  *)
(*               a varint writer returned                                  *)
(*   kept        the bytes 0 .. len0-1 are the same after it               *)
(*   same        the backing array is the same array with the same bytes   *)
(*   undo        BackUp(n) right after a NextBytes(n) that returned: the   *)
(*               length before that NextBytes, else -1                     *)
(*   prev        what the operation before it was                          *)

NoPrev == [name |-> "none", n |-> W(0), len0 |-> 0, undo |-> -1]

SinkStart(z) ==
    [name |-> "New", n |-> W(0), req |-> -1, len0 |-> z.len, cap0 |-> Len(z.arr),
     gen0 |-> 0, m |-> 0, size |-> 0, kept |-> TRUE, same |-> TRUE, undo |-> -1,
     prev |-> NoPrev]

SinkRec(name, n, req, r) ==
    [name |-> name, n |-> n, req |-> req,
     len0 |-> sink.len, cap0 |-> Len(sink.arr), gen0 |-> sink.gen,
     m |-> r.m, size |-> r.size,
     kept |-> /\ r.z.len >= sink.len
              /\ SubSeq(r.z.arr, 1, sink.len) = SubSeq(sink.arr, 1, sink.len),
     same |-> r.z.arr = sink.arr /\ r.z.gen = sink.gen,
     undo |-> IF name = "BackUp" /\ sop.name = "NextBytes" /\ sop.n = n
              THEN sop.len0 ELSE -1,
     prev |-> [name |-> sop.name, n |-> sop.n, len0 |-> sop.len0, undo |-> sop.undo]]

SinkOp(name, n, req, r) ==
    /\ sink' = r.z
    /\ sop' = SinkRec(name, n, req, r)
    /\ steps' = steps + 1
    /\ UNCHANGED <<src, rop, log>>

SinkReady == sink.panic = "none" /\ steps < MaxSinkOps

\* what NextBytes returned, as an operation's result
Returned(r) == [z |-> r.z, m |-> r.m, size |-> r.wlen]
SmallOr(n) == IF IsSmall(n) THEN Nat64(n) ELSE -1

DoNextBytes ==
    /\ SinkReady
    /\ \E n \in SinkSizes :
          SinkOp("NextBytes", n, SmallOr(n), Returned(SinkNextBytes(sink, n)))

DoBackUp ==
    /\ SinkReady
    /\ \E n \in BackUpSizes :
          SinkOp("BackUp", n, -1, [z |-> SinkBackUp(sink, n), m |-> 0, size |-> 0])

DoWriteBytes ==
    /\ SinkReady
    /\ \E p \in ByteSeqs : SinkOp("WriteBytes", W(Len(p)), Len(p), WriteBytes(sink, p))

DoWriteUint8 ==
    /\ SinkReady
    /\ \E b \in {5} : SinkOp("WriteUint8", W(1), 1, WriteUint8(sink, b))

DoWriteBool ==
    /\ SinkReady
    /\ \E b \in BOOLEAN : SinkOp("WriteBool", W(1), 1, WriteBool(sink, b))

DoWriteUint16 ==
    /\ SinkReady
    /\ \E x \in {W(300)} : SinkOp("WriteUint16", W(2), 2, WriteUint16(sink, x))

DoWriteUint32 ==
    /\ SinkReady
    /\ \E x \in {W(65536 + 2)} : SinkOp("WriteUint32", W(4), 4, WriteUint32(sink, x))

DoWriteUint64 ==
    /\ SinkReady
    /\ \E x \in {<<1, 2, 3, 4>>} : SinkOp("WriteUint64", W(8), 8, WriteUint64(sink, x))

DoWriteVarUint ==
    /\ SinkReady
    /\ \E v \in SinkVarVals :
          SinkOp("WriteVarUint", v, VarUintReserve, WriteVarUint(sink, v))

DoWriteVarBytes ==
    /\ SinkReady
    /\ \E p \in ByteSeqs : SinkOp("WriteVarBytes", W(Len(p)), -1, WriteVarBytes(sink, p))

DoReset ==
    /\ SinkReady
    /\ SinkOp("Reset", W(0), -1, [z |-> SinkReset(sink), m |-> 0, size |-> 0])

NoLog == [vals |-> <<>>, sizes |-> <<>>, base |-> 0, opened |-> FALSE, nread |-> 0]
NoSource == NewZeroCopySource(<<>>)
NoRead ==
    [name |-> "New", n |-> W(0), off0 |-> W(0), eof |-> FALSE, val |-> W(0),
     data |-> <<>>, tr |-> <<>>, inContract |-> TRUE, crossed |-> FALSE,
     undo |-> FALSE,
     prev |-> [name |-> "none", n |-> W(0), off0 |-> W(0), eof |-> FALSE,
               crossed |-> FALSE, undo |-> FALSE],
     prev2 |-> [off0 |-> W(0), eof |-> FALSE]]

SinkInit ==
    /\ \E b \in SinkBufs :
          /\ sink = NewZeroCopySink(b)
          /\ sop = SinkStart(NewZeroCopySink(b))
    /\ src = NoSource
    /\ rop = NoRead
    /\ steps = 0
    /\ log = NoLog

SinkNext ==
    \/ DoNextBytes
    \/ DoBackUp
    \/ DoWriteBytes
    \/ DoWriteUint8
    \/ DoWriteBool
    \/ DoWriteUint16
    \/ DoWriteUint32
    \/ DoWriteUint64
    \/ DoWriteVarUint
    \/ DoWriteVarBytes
    \/ DoReset

SpecSink == SinkInit /\ [][SinkNext]_vars

----------------------------------------------------------------------------
(* Inputs of the source operations *)

\* lengths given to NextBytes, Skip and BackUp; off + MaxUint64 overflows
\* for every off >= 1
SrcSizes == { W(0), W(1), W(2), W(5), MaxUint64 }

\* values whose varint encodings the data starts with
SrcVarVals == { W(3), W(300), W(65536), MaxUint64 }

\* what follows the varint in the data
Tails == { <<>>, <<1, 2, 3>> }

Min(a, b) == IF a < b THEN a ELSE b

\* the data of a source: a varint as the sink writes it followed by a tail,
\* a non-minimal varint, and bytes that are no boolean, each cut at every
\* length up to MaxData
WholeData ==
    { VarUintForm(v).bytes \o tl : v \in SrcVarVals, tl \in Tails }
        \cup { <<253, 1, 0, 7>>, <<0, 1, 2>> }
SrcData == { SubSeq(d, 1, Min(k, Len(d))) : d \in WholeData, k \in 0..MaxData }

----------------------------------------------------------------------------
(* The source as a state machine.  rop records the last operation:         *)
(*   name, n     the operation and its length argument (a word)            *)
(*   off0        the cursor before it                                      *)
(*   eof, val, data, tr   what it returned and the inner reads it made     *)
(*   inContract  every BackUp so far was given at most the cursor          *)
(*   crossed     it is a read that reported eof because the data ended     *)
(*               (NextBool also reports eof for a byte that is not 0 or 1) *)
(*   undo        it is a BackUp(n) right after a Skip(n)                   *)
(*   prev        the same facts about the operation before it              *)
(*   prev2       the cursor before, and the eof of, the one before that    *)

ReadNames ==
    { "NextByte", "NextBytes", "Skip", "NextUint8", "NextBool", "NextUint16",
      "NextUint32", "NextUint64", "NextAddress", "NextHash", "NextVarUint",
      "NextVarBytes", "NextString" }

SrcRec(name, n, r) ==
    [name |-> name, n |-> n, off0 |-> src.off, eof |-> r.eof,
     val |-> r.val, data |-> r.data, tr |-> r.tr,
     inContract |-> rop.inContract /\ (name = "BackUp" => LeU(n, src.off)),
     crossed |-> /\ name \in ReadNames
                 /\ r.eof
                 /\ ~(name = "NextBool" /\ r.z.off # src.off),
     undo |-> name = "BackUp" /\ rop.name = "Skip" /\ rop.n = n,
     prev |-> [name |-> rop.name, n |-> rop.n, off0 |-> rop.off0, eof |-> rop.eof,
               crossed |-> rop.crossed, undo |-> rop.undo],
     prev2 |-> [off0 |-> rop.prev.off0, eof |-> rop.prev.eof]]

SrcOp(name, n, r) ==
    /\ src' = r.z
    /\ rop' = SrcRec(name, n, r)
    /\ steps' = steps + 1
    /\ UNCHANGED <<sink, sop, log>>

SrcReady == src.panic = "none" /\ steps < MaxSrcOps

DoSrcNextByte == SrcReady /\ SrcOp("NextByte", W(1), NextByte(src))
DoSrcNextBytes == SrcReady /\ \E n \in SrcSizes : SrcOp("NextBytes", n, SrcNextBytes(src, n))
DoSrcSkip == SrcReady /\ \E n \in SrcSizes : SrcOp("Skip", n, SrcSkip(src, n))
DoSrcBackUp ==
    /\ SrcReady
    /\ \E n \in SrcSizes :
          SrcOp("BackUp", n, Res(SrcBackUp(src, n), FALSE, W(0), <<>>, <<>>))
DoSrcNextUint8 == SrcReady /\ SrcOp("NextUint8", W(1), NextUint8(src))
DoSrcNextBool == SrcReady /\ SrcOp("NextBool", W(1), NextBool(src))
DoSrcNextUint16 == SrcReady /\ SrcOp("NextUint16", W(Uint16Size), NextUint16(src))
DoSrcNextUint32 == SrcReady /\ SrcOp("NextUint32", W(Uint32Size), NextUint32(src))
DoSrcNextUint64 == SrcReady /\ SrcOp("NextUint64", W(Uint64Size), NextUint64(src))
DoSrcNextAddress == SrcReady /\ SrcOp("NextAddress", W(AddrLen), NextAddress(src))
DoSrcNextHash == SrcReady /\ SrcOp("NextHash", W(Uint256Size), NextHash(src))
DoSrcNextVarUint == SrcReady /\ SrcOp("NextVarUint", W(0), NextVarUint(src))
DoSrcNextVarBytes == SrcReady /\ SrcOp("NextVarBytes", W(0), NextVarBytes(src))
DoSrcNextString == SrcReady /\ SrcOp("NextString", W(0), NextString(src))

SrcInit ==
    /\ \E d \in SrcData : src = NewZeroCopySource(d)
    /\ rop = NoRead
    /\ sink = NewZeroCopySink([nil |-> FALSE, arr |-> <<>>, len |-> 0])
    /\ sop = SinkStart(sink)
    /\ steps = 0
    /\ log = NoLog

SrcNext ==
    \/ DoSrcNextByte
    \/ DoSrcNextBytes
    \/ DoSrcSkip
    \/ DoSrcBackUp
    \/ DoSrcNextUint8
    \/ DoSrcNextBool
    \/ DoSrcNextUint16
    \/ DoSrcNextUint32
    \/ DoSrcNextUint64
    \/ DoSrcNextAddress
    \/ DoSrcNextHash
    \/ DoSrcNextVarUint
    \/ DoSrcNextVarBytes
    \/ DoSrcNextString

SpecSource == SrcInit /\ [][SrcNext]_vars

----------------------------------------------------------------------------
(* Round trip: varints written by a sink, then read back by a new source   *)
(* over the bytes the sink produced.                                       *)

\* values written as varints: both sides of every boundary of the forms
VarVals ==
    { W(0), W(1), W(252), W(253), W(300), W(65535), W(65536),
      <<TopLimb, TopLimb, 0, 0>>, Pow32, <<1, 2, 3, 4>>, MaxUint64 }

RECURSIVE SumTo(_, _)
SumTo(q, k) == IF k = 0 THEN 0 ELSE q[k] + SumTo(q, k - 1)

Wrote(v, r) ==
    /\ sink' = r.z
    /\ sop' = SinkRec("WriteVarUint", v, VarUintReserve, r)
    /\ log' = [log EXCEPT !.vals = Append(@, v), !.sizes = Append(@, r.size)]
    /\ steps' = steps + 1
    /\ UNCHANGED <<src, rop>>

HasRead(r) ==
    /\ src' = r.z
    /\ rop' = SrcRec("NextVarUint", W(0), r)
    /\ log' = [log EXCEPT !.nread = @ + 1]
    /\ UNCHANGED <<sink, sop, steps>>

CodecWrite ==
    /\ ~log.opened
    /\ sink.panic = "none"
    /\ Len(log.vals) < MaxVarints
    /\ \E v \in VarVals : Wrote(v, WriteVarUint(sink, v))

\* NewZeroCopySource(sink.Bytes()[base:])
CodecOpen ==
    /\ ~log.opened
    /\ sink.panic = "none"
    /\ Len(log.vals) >= 1
    /\ src' = NewZeroCopySource(SubSeq(SinkBytes(sink), log.base + 1, sink.len))
    /\ log' = [log EXCEPT !.opened = TRUE]
    /\ UNCHANGED <<sink, sop, rop, steps>>

CodecRead ==
    /\ log.opened
    /\ src.panic = "none"
    /\ log.nread < Len(log.vals)
    /\ HasRead(NextVarUint(src))

CodecInit ==
    /\ \E b \in SinkBufs :
          /\ sink = NewZeroCopySink(b)
          /\ sop = SinkStart(NewZeroCopySink(b))
          /\ log = [NoLog EXCEPT !.base = b.len]
    /\ src = NoSource
    /\ rop = NoRead
    /\ steps = 0

CodecNext ==
    \/ CodecWrite
    \/ CodecOpen
    \/ CodecRead

SpecCodec == CodecInit /\ [][CodecNext]_vars

----------------------------------------------------------------------------
(* Properties of the round trip (SpecCodec) *)

\* C1: a varint written by WriteVarUint and read back by NextVarUint from a
\* new source over the bytes the sink produced is the value written, with
\* eof = false, and the cursor stands at the number of bytes written for
\* the varints read so far (at the end of the data after the last one).
C1_VarintRoundTrip ==
    (log.opened /\ log.nread >= 1) =>
        /\ src.panic = "none"
        /\ rop.eof = FALSE
        /\ rop.val = log.vals[log.nread]
        /\ src.off = W(SumTo(log.sizes, log.nread))
        /\ log.nread = Len(log.vals) =>
              /\ src.off = W(Len(src.s))
              /\ Len(src.s) = sink.len - log.base

C1_Witness ==
    /\ log.opened
    /\ log.nread = 2
    /\ log.vals = <<MaxUint64, W(253)>>
    /\ rop.val = W(253)
    /\ src.off = W(12)

\* the size the table of forms gives a value
TableSize(v) ==
    IF LeU(v, W(252)) THEN 1
    ELSE IF LeU(v, W(65535)) THEN 3
    ELSE IF LeU(v, <<TopLimb, TopLimb, 0, 0>>) THEN 5
    ELSE 9

\* the bytes WriteVarUint left at offsets len0 .. len-1
Written == SubSeq(sink.arr, sop.len0 + 1, sink.len)

\* C2: WriteVarUint(v) lengthens the sink by exactly 1, 3, 5 or 9 bytes as
\* the table of forms says, returns that size, starts the 3-, 5- and 9-byte
\* forms with 0xFD, 0xFE and 0xFF followed by the value in little-endian
\* order, and writes 300 as 0xFD 0x2C 0x01.
C2_VarintExactLength ==
    (sop.name = "WriteVarUint" /\ sink.panic = "none") =>
        /\ sink.len = sop.len0 + TableSize(sop.n)
        /\ sop.size = sink.len - sop.len0
        /\ sop.m = sop.len0
        /\ TableSize(sop.n) = 1 => Written = <<sop.n[1]>>
        /\ TableSize(sop.n) = 3 =>
              /\ Written[1] = 253
              /\ Written[2] + 256 * Written[3] = sop.n[1]
        /\ TableSize(sop.n) = 5 =>
              /\ Written[1] = 254
              /\ \A i \in 1..2 : Written[2 * i] + 256 * Written[2 * i + 1] = sop.n[i]
        /\ TableSize(sop.n) = 9 =>
              /\ Written[1] = 255
              /\ \A i \in 1..4 : Written[2 * i] + 256 * Written[2 * i + 1] = sop.n[i]
        /\ sop.n = W(300) => Written = <<253, 44, 1>>

C2_Witness ==
    /\ sop.name = "WriteVarUint"
    /\ sink.panic = "none"
    /\ sop.n = W(300)
    /\ sop.len0 = 2
    /\ sink.len = 5
    /\ sink.gen = 1

----------------------------------------------------------------------------
(* Properties of the source (SpecSource) *)

DataLen == Len(src.s)

\* the bytes a read with a fixed demand asks for
Demand ==
    IF rop.name \in {"NextBytes", "Skip"} THEN rop.n
    ELSE IF rop.name \in {"NextByte", "NextUint8", "NextBool"} THEN W(1)
    ELSE IF rop.name = "NextUint16" THEN W(2)
    ELSE IF rop.name = "NextUint32" THEN W(4)
    ELSE IF rop.name = "NextUint64" THEN W(8)
    ELSE IF rop.name = "NextAddress" THEN W(20)
    ELSE W(32)

FixedDemand ==
    rop.name \in { "NextBytes", "Skip", "NextByte", "NextUint8", "NextBool",
                   "NextUint16", "NextUint32", "NextUint64", "NextAddress", "NextHash" }

\* the read asks for more bytes than are left after the cursor off0 <= N
AsksPastEnd == LtU(W(DataLen - Nat64(rop.off0)), Demand)

\* the read that crosses the end: eof, a short or empty result, the cursor
\* at N
CrossingRead ==
    /\ (rop.inContract /\ FixedDemand /\ AsksPastEnd) => rop.crossed
    /\ (rop.inContract /\ rop.crossed) =>
          /\ src.panic = "none"
          /\ src.off = W(DataLen)
          /\ rop.val = W(0)
          /\ rop.data = SubSeq(src.s, DataLen - Len(rop.data) + 1, DataLen)
          /\ FixedDemand => LtU(W(Len(rop.data)), Demand)
          /\ rop.name \notin {"NextBytes", "NextVarBytes", "NextString"} =>
                rop.data = <<>>

\* C3 as stated: the read that first crosses the end of the data returns
\* eof with a zero-length or truncated result and leaves the cursor at N,
\* and the next read after it also reports eof.
C3_Exhaustion_AsStated ==
    /\ CrossingRead
    /\ (rop.inContract /\ rop.prev.crossed /\ rop.name \in ReadNames) => rop.eof

\* C3 amended: the read that first crosses the end of the data returns eof
\* with a zero-length or truncated result and leaves the cursor at N, and
\* the next read after it also reports eof unless it asks for zero bytes
\* (NextBytes(0), Skip(0)).
C3_Exhaustion ==
    /\ CrossingRead
    /\ ( /\ rop.inContract
         /\ rop.prev.crossed
         /\ rop.name \in ReadNames
         /\ ~(rop.name \in {"NextBytes", "Skip"} /\ rop.n = W(0)) )
       => (rop.eof /\ src.off = W(DataLen))

C3_Witness ==
    /\ rop.name = "NextUint16"
    /\ rop.eof
    /\ rop.prev.name = "NextVarBytes"
    /\ rop.prev.crossed
    /\ rop.prev.off0 = W(1)
    /\ DataLen = 3

\* off0 + n overflows 64 bits, or exceeds the length of the data
Overflows == LtU(SubWrap(MaxUint64, rop.off0), rop.n)
Exceeds == LtU(W(DataLen), AddWrap(rop.off0, rop.n))

\* C4: as long as every BackUp(n) was given n <= cursor, the cursor is at
\* most len(data), no read panics on a slice out of range, and a NextBytes
\* or Skip whose cursor + n overflows or exceeds len(data) sets the cursor to
\* len(data) and reports eof, NextBytes returning the bytes that were left.
C4_CursorInvariant ==
    rop.inContract =>
        /\ src.panic = "none"
        /\ LeU(src.off, W(DataLen))
        /\ (rop.name \in {"NextBytes", "Skip"} /\ (Overflows \/ Exceeds)) =>
              /\ src.off = W(DataLen)
              /\ rop.eof
        /\ rop.name = "NextBytes" =>
              rop.data = SubSeq(src.s, Nat64(rop.off0) + 1, Nat64(src.off))

C4_Witness ==
    /\ rop.inContract
    /\ rop.name = "NextBytes"
    /\ rop.n = MaxUint64
    /\ rop.off0 = W(2)
    /\ rop.prev.name = "BackUp"
    /\ src.off = W(DataLen)
    /\ DataLen = 4

\* the read rop.name with argument rop.n, applied to a source z
ReadOp(z) ==
    IF rop.name = "NextByte" THEN NextByte(z)
    ELSE IF rop.name = "NextBytes" THEN SrcNextBytes(z, rop.n)
    ELSE IF rop.name = "Skip" THEN SrcSkip(z, rop.n)
    ELSE IF rop.name = "NextUint8" THEN NextUint8(z)
    ELSE IF rop.name = "NextBool" THEN NextBool(z)
    ELSE IF rop.name = "NextUint16" THEN NextUint16(z)
    ELSE IF rop.name = "NextUint32" THEN NextUint32(z)
    ELSE IF rop.name = "NextUint64" THEN NextUint64(z)
    ELSE IF rop.name = "NextAddress" THEN NextAddress(z)
    ELSE IF rop.name = "NextHash" THEN NextHash(z)
    ELSE IF rop.name = "NextVarUint" THEN NextVarUint(z)
    ELSE IF rop.name = "NextVarBytes" THEN NextVarBytes(z)
    ELSE NextString(z)

\* the read started at the cursor p and returned what it returns on the
\* same data at the cursor p
SameAsBefore(p) ==
    /\ rop.off0 = p
    /\ rop.eof = ReadOp([s |-> src.s, off |-> p, panic |-> "none"]).eof
    /\ rop.val = ReadOp([s |-> src.s, off |-> p, panic |-> "none"]).val
    /\ rop.data = ReadOp([s |-> src.s, off |-> p, panic |-> "none"]).data

\* C5 as stated: for every n, Skip(n) followed by BackUp(n) restores the
\* cursor the Skip started from.
C5_BackupSymmetry_AsStated ==
    rop.undo => src.off = rop.prev.off0

\* C5 amended: for every n for which Skip(n) does not report eof (n is at
\* most the bytes left), Skip(n) followed by BackUp(n) restores the cursor
\* the Skip started from, and the read made next starts at that cursor and
\* returns the value, bytes and eof it returns there.
C5_BackupSymmetry ==
    /\ (rop.undo /\ ~rop.prev.eof) => src.off = rop.prev.off0
    /\ (rop.name \in ReadNames /\ rop.prev.undo /\ ~rop.prev2.eof) =>
          SameAsBefore(rop.prev2.off0)

C5_Witness ==
    /\ rop.name = "NextVarUint"
    /\ rop.prev.undo
    /\ ~rop.prev2.eof
    /\ rop.prev2.off0 = W(0)
    /\ rop.prev.n = W(2)
    /\ rop.val = W(300)
    /\ rop.eof = FALSE

Composite == {"NextVarUint", "NextVarBytes", "NextString"}

\* the discriminator byte at the cursor off0 < N, and the width it announces
Discriminator == src.s[Nat64(rop.off0) + 1]
Announced ==
    IF Discriminator = 253 THEN 2
    ELSE IF Discriminator = 254 THEN 4
    ELSE IF Discriminator = 255 THEN 8
    ELSE 0

\* the length read of NextVarBytes failed: at the discriminator, or at the
\* payload the discriminator announces
LengthFailed == rop.tr[1].eof \/ (Announced > 0 /\ rop.tr[2].eof)

\* C9: in NextVarUint, NextVarBytes and NextString no inner read follows an
\* inner read that reported eof, the composite read reports the eof of its
\* last inner read and leaves the cursor where that read left it, a varint
\* whose payload is cut short reports eof, and a failed length read yields
\* no bytes.
C9_FirstFailure ==
    (rop.name \in Composite /\ src.panic = "none") =>
        /\ Len(rop.tr) >= 1
        /\ \A i \in 1..(Len(rop.tr) - 1) : ~rop.tr[i].eof
        /\ rop.eof = rop.tr[Len(rop.tr)].eof
        /\ src.off = rop.tr[Len(rop.tr)].off
        /\ (LtU(rop.off0, W(DataLen)) /\ DataLen - Nat64(rop.off0) - 1 < Announced) =>
              (rop.eof /\ Len(rop.tr) = 2 /\ rop.data = <<>> /\ rop.val = W(0))
        /\ (rop.name # "NextVarUint" /\ LengthFailed) =>
              (rop.eof /\ rop.data = <<>> /\ Len(rop.tr) <= 2)

C9_Witness ==
    /\ rop.name = "NextVarBytes"
    /\ rop.eof
    /\ Len(rop.tr) = 2
    /\ rop.tr[1].eof = FALSE
    /\ rop.off0 = W(0)
    /\ src.s = <<254, 0, 0>>
    /\ src.off = W(3)

----------------------------------------------------------------------------
(* Properties of the sink (SpecSink) *)

Cap == Len(sink.arr)

\* the operations that reserve and write
Growing ==
    { "NextBytes", "WriteBytes", "WriteUint8", "WriteBool", "WriteUint16",
      "WriteUint32", "WriteUint64", "WriteVarUint", "WriteVarBytes" }

Writers == Growing \ {"NextBytes"}

\* C6: the length never exceeds the capacity; a NextBytes(n) that returns
\* gives a window of exactly n bytes that starts at the previous length and
\* lengthens the sink by n; after every reserve or write that returns, the
\* bytes 0 .. len0-1 are what they were, also across a reallocation; and a
\* slow path on capacity c for a request of n leaves capacity 2*c + n, at
\* least the new length.
C6_GrowthPreservesContent ==
    /\ sink.len <= Cap
    /\ (sop.name = "NextBytes" /\ sink.panic = "none") =>
          /\ sop.req # -1
          /\ sop.m = sop.len0
          /\ sop.size = sop.req
          /\ sink.len = sop.len0 + sop.req
    /\ (sop.name \in Growing /\ sink.panic = "none") =>
          /\ sop.kept
          /\ sink.len >= sop.len0
    /\ (sop.name \in Growing /\ sop.req # -1 /\ sink.gen # sop.gen0) =>
          /\ sink.gen = sop.gen0 + 1
          /\ Cap = 2 * sop.cap0 + sop.req
          /\ Cap >= sink.len
          /\ sop.req > sop.cap0 - sop.len0

C6_Witness ==
    /\ sop.name = "WriteUint16"
    /\ sink.panic = "none"
    /\ sink.gen = 2
    /\ sop.gen0 = 1
    /\ sop.len0 = 3
    /\ sop.cap0 = 3
    /\ Cap = 8
    /\ SinkBytes(sink) = <<1, 2, 3, 44, 1>>

\* C7 as stated: the first request made of a new sink of capacity c, for
\* n <= c bytes, is served in place: no allocation, the capacity unchanged.
C7_NoRealloc_AsStated ==
    ( /\ sop.name = "NextBytes"
      /\ sop.prev.name = "New"
      /\ LeU(sop.n, W(sop.cap0)) )
    => (sink.panic = "none" /\ sink.gen = sop.gen0 /\ Cap = sop.cap0)

\* C7 amended: a sink of capacity c and length l (from a caller's buffer, or
\* c = 512 and l = 0 when given nil) asked for n <= c - l bytes extends its
\* length in place on the fast path: no allocation, no copy, the capacity
\* and every byte of the array unchanged by the reservation.
C7_NoRealloc ==
    /\ (sop.name = "NextBytes" /\ LeU(sop.n, W(sop.cap0 - sop.len0))) =>
          /\ sink.panic = "none"
          /\ sop.same
          /\ Cap = sop.cap0
          /\ sink.len = sop.len0 + sop.req
    /\ (sop.name \in Writers /\ sop.req # -1 /\ sop.req <= sop.cap0 - sop.len0) =>
          /\ sink.panic = "none"
          /\ sink.gen = sop.gen0
          /\ Cap = sop.cap0

C7_Witness ==
    /\ sop.name = "NextBytes"
    /\ sop.prev.name = "New"
    /\ sop.cap0 = DefaultReserve
    /\ sop.n = W(3)
    /\ sink.len = 3
    /\ sink.gen = 0

\* the request cannot be served in place, and 2*c + n is more than maxInt
MustGrow == LtU(W(sop.cap0 - sop.len0), sop.n)
TooLarge == LtU(SubWrap(maxInt, W(2 * sop.cap0)), sop.n)

\* C8: a NextBytes(n) that must grow the buffer while 2*c + n exceeds the
\* largest int panics with the too-large error and leaves the length as it
\* was: it does not shrink the length, and returns no window.
C8_OverflowGuard ==
    (sop.name = "NextBytes" /\ MustGrow /\ TooLarge) =>
        /\ sink.panic = "ErrTooLarge"
        /\ sink.len = sop.len0

\* C10: NextBytes(n) followed by BackUp(n) restores the length; BackUp
\* changes neither the capacity nor any byte of the array; and the write
\* made next starts at the restored length L and leaves bytes 0 .. L-1 as
\* they were.
C10_SinkBackupSymmetry ==
    /\ sop.undo # -1 =>
          /\ sink.panic = "none"
          /\ sink.len = sop.undo
    /\ sop.name = "BackUp" =>
          /\ sop.same
          /\ Cap = sop.cap0
    /\ (sop.name \in Writers /\ sop.prev.undo # -1 /\ sink.panic = "none") =>
          /\ sop.len0 = sop.prev.undo
          /\ sop.m = sop.prev.undo
          /\ sop.kept

C10_Witness ==
    /\ sop.name = "WriteUint16"
    /\ sink.panic = "none"
    /\ sop.prev.undo = 2
    /\ sop.prev.n = W(3)
    /\ sop.m = 2
    /\ SinkBytes(sink) = <<7, 8, 44, 1>>

====
